---- MODULE Spec2Model ----
(***************************************************************************)
(* OctQuant: octree colour quantization.                                   *)
(*                                                                         *)
(* The repository holds two quantization engines, each a program of its    *)
(* own:                                                                    *)
(*   - OctreeQuantizer (QuantizerConfig, AddColor, MakePalette,            *)
(*     GetPaletteIndex), driven by forImages;                              *)
(*   - Octree (InsertColor, Reduce, BuildPalette, GetPaletteIndex),        *)
(*     driven by BuildTree / ConvertToPaletted.                            *)
(* A behaviour of the model is one run of one of the two programs: the     *)
(* variable prog says which.  Spec runs the two engines with valid         *)
(* parameters, ConstructSpec with any parameters, MainSpec runs            *)
(* OctreeQuantizer from the command line, ReduceSpec runs Octree with its  *)
(* leafCount field at the ceiling, IndexSpec computes branch indices.      *)
(* A tree is a function from paths (sequences of child indices 0..7, the   *)
(* root being the empty path) to node records;                             *)
(* node p has a child at index i iff Append(p, i) is in the domain.        *)
(***************************************************************************)
EXTENDS Integers, Sequences, FiniteSets, TLC

VARIABLES prog, pc, pixels, quantizer, palette, octree, fault, probe, mapped,
          args, digit

vars == <<prog, pc, pixels, quantizer, palette, octree, fault, probe, mapped,
          args, digit>>

(***************************************************************************)
(* Bounds and inputs.                                                      *)
(***************************************************************************)
\* number of pixels of the image fed to the tree
MaxInserts == 3

\* depths accepted by main (d >= 1 && d <= 8)
Depths == 1..8

\* colour budgets accepted by main (c >= 2 && c <= 256): the smallest, where
\* the cap bites, and the default
Budgets == {2, 256}

NoNode == <<-1>>

RGBA(r, g, b, a) == [R |-> r, G |-> g, B |-> b, A |-> a]

Black == RGBA(0, 0, 0, 255)
NearBlack == RGBA(1, 1, 1, 255)
White == RGBA(255, 255, 255, 255)
NearWhite == RGBA(254, 254, 254, 255)
PureRed == RGBA(255, 0, 0, 255)
PureGreen == RGBA(0, 255, 0, 255)
PureBlue == RGBA(0, 0, 255, 255)
LightGrey == RGBA(191, 191, 191, 255)

\* the pixels an image may hold (8-bit color.RGBA, all opaque): the extremes,
\* a neighbour of black that parts from it at the last bit, and the primaries
Pixels == {Black, NearBlack, White, PureRed, PureGreen, PureBlue}

\* colours that are looked up and never inserted: one that parts from white
\* at the last bit, one that parts from it at the second bit
Probes == {NearWhite, LightGrey}

(***************************************************************************)
(* Pixel decoding, as both drivers do it.                                  *)
(***************************************************************************)
\* color.RGBA.RGBA(): each 8-bit channel widened to 16 bits (v | v<<8)
RGBA16(c) == [R |-> c.R * 257, G |-> c.G * 257, B |-> c.B * 257, A |-> c.A * 257]

\* int(r>>8), int(g>>8), int(b>>8), int(a>>8)
NewColor(c) ==
  LET w == RGBA16(c)
  IN [Red |-> w.R \div 256, Green |-> w.G \div 256,
      Blue |-> w.B \div 256, Alpha |-> w.A \div 256]

(***************************************************************************)
(* OctreeQuantizer                                                         *)
(***************************************************************************)
CustomConfig(depth, colors) == [MaxColors |-> colors, MaxDepth |-> depth]

ZeroNode == [Color |-> [Red |-> 0, Green |-> 0, Blue |-> 0, Alpha |-> 0],
             PixelCount |-> 0, PaletteIndex |-> 0]

\* quantizer.Levels[level] = append(quantizer.Levels[level], node)
AddLevelNode(q, level, node) ==
  [q EXCEPT !.Levels[level] = Append(@, node)]

\* a fresh node at path node, registered under the level it was created at
NewOctreeNode(q, node, level) ==
  LET q1 == [q EXCEPT !.Root = (node :> ZeroNode) @@ @]
  IN IF level < q.Config.MaxDepth - 1 THEN AddLevelNode(q1, level, node) ELSE q1

NewOctreeQuantizer(config) ==
  NewOctreeNode([Levels |-> [l \in 0..7 |-> <<>>], Root |-> <<>> :> ZeroNode,
                 Config |-> config], <<>>, 0)

IsLeaf(n) == n.PixelCount > 0

\* mask := 0x80 >> level
Mask(level) == IF level > 7 THEN 0 ELSE 2 ^ (7 - level)

\* v & mask != 0, mask being zero or a single bit
BitSet(v, mask) == mask # 0 /\ (v \div mask) % 2 = 1

\* GetColorIndexForLevel looking at the red bit only
GetColorIndexForLevelRedOnly(color, level) ==
  IF BitSet(color.Red, Mask(level)) THEN 4 ELSE 0

GetColorIndexForLevel(color, level) ==
  LET mask == Mask(level)
  IN (IF BitSet(color.Red, mask) THEN 4 ELSE 0)
     + (IF BitSet(color.Green, mask) THEN 2 ELSE 0)
     + (IF BitSet(color.Blue, mask) THEN 1 ELSE 0)

HasChild(root, node, i) == Append(node, i) \in DOMAIN root

RECURSIVE AddColorAlwaysNew(_, _, _, _)
\* AddColor without the test Children[index] == nil
AddColorAlwaysNew(q, node, color, level) ==
  IF level >= q.Config.MaxDepth
  THEN [q EXCEPT !.Root[node] =
          [@ EXCEPT !.Color = [Red |-> @.Red + color.Red,
                               Green |-> @.Green + color.Green,
                               Blue |-> @.Blue + color.Blue,
                               Alpha |-> @.Alpha + color.Alpha],
                    !.PixelCount = @ + 1]]
  ELSE LET index == GetColorIndexForLevel(color, level)
           child == Append(node, index)
       IN AddColorAlwaysNew(NewOctreeNode(q, child, level), child, color, level + 1)

RECURSIVE AddColor(_, _, _, _)
AddColor(q, node, color, level) ==
  IF level >= q.Config.MaxDepth
  THEN [q EXCEPT !.Root[node] =
          [@ EXCEPT !.Color = [Red |-> @.Red + color.Red,
                               Green |-> @.Green + color.Green,
                               Blue |-> @.Blue + color.Blue,
                               Alpha |-> @.Alpha + color.Alpha],
                    !.PixelCount = @ + 1]]
  ELSE LET index == GetColorIndexForLevel(color, level)
           child == Append(node, index)
           q1 == IF ~HasChild(q.Root, node, index)
                 THEN NewOctreeNode(q, child, level) ELSE q
       IN AddColor(q1, child, color, level + 1)

RECURSIVE GetLeafNodesDescending(_, _, _)
\* GetLeafNodes ranging over the children from index 7 down to 0
GetLeafNodesDescending(root, node, i) ==
  IF i > 7 THEN <<>>
  ELSE LET child == Append(node, 7 - i)
           here == IF ~HasChild(root, node, 7 - i) THEN <<>>
                   ELSE IF IsLeaf(root[child]) THEN <<child>>
                   ELSE GetLeafNodesDescending(root, child, 0)
       IN here \o GetLeafNodesDescending(root, node, i + 1)

RECURSIVE GetLeafNodes(_, _, _)
\* the leaves below node, children i..7, in index order
GetLeafNodes(root, node, i) ==
  IF i > 7 THEN <<>>
  ELSE LET child == Append(node, i)
           here == IF ~HasChild(root, node, i) THEN <<>>
                   ELSE IF IsLeaf(root[child]) THEN <<child>>
                   ELSE GetLeafNodes(root, child, 0)
       IN here \o GetLeafNodes(root, node, i + 1)

GetLeaves(q) == GetLeafNodes(q.Root, <<>>, 0)

RECURSIVE RemoveLeavesFrom(_, _, _, _)
\* the loop of RemoveLeaves from child i on; result counts the children seen
RemoveLeavesFrom(root, node, i, result) ==
  IF i > 7 THEN [root |-> root, result |-> result - 1]
  ELSE IF HasChild(root, node, i)
  THEN LET c == root[Append(node, i)]
           r1 == [root EXCEPT ![node] =
                    [@ EXCEPT !.Color = [Red |-> @.Red + c.Color.Red,
                                         Green |-> @.Green + c.Color.Green,
                                         Blue |-> @.Blue + c.Color.Blue,
                                         Alpha |-> @.Alpha + c.Color.Alpha],
                              !.PixelCount = @ + c.PixelCount]]
       IN RemoveLeavesFrom(r1, node, i + 1, result + 1)
  ELSE RemoveLeavesFrom(root, node, i + 1, result)

RemoveLeaves(root, node) == RemoveLeavesFrom(root, node, 0, 0)

\* GetColor rounding each quotient to the nearest integer
GetColorRounded(n) ==
  IF n.PixelCount = 0 THEN [Red |-> 0, Green |-> 0, Blue |-> 0, Alpha |-> 0]
  ELSE [Red |-> (2 * n.Color.Red + n.PixelCount) \div (2 * n.PixelCount),
        Green |-> (2 * n.Color.Green + n.PixelCount) \div (2 * n.PixelCount),
        Blue |-> (2 * n.Color.Blue + n.PixelCount) \div (2 * n.PixelCount),
        Alpha |-> (2 * n.Color.Alpha + n.PixelCount) \div (2 * n.PixelCount)]

GetColor(n) ==
  IF n.PixelCount = 0 THEN [Red |-> 0, Green |-> 0, Blue |-> 0, Alpha |-> 0]
  ELSE [Red |-> n.Color.Red \div n.PixelCount,
        Green |-> n.Color.Green \div n.PixelCount,
        Blue |-> n.Color.Blue \div n.PixelCount,
        Alpha |-> n.Color.Alpha \div n.PixelCount]

RECURSIVE ReduceNodes(_, _, _, _, _)
\* the inner loop of MakePalette over nodes[k..]: merge, then test the budget
ReduceNodes(root, leafCount, nodes, k, budget) ==
  IF k > Len(nodes) THEN [root |-> root, leafCount |-> leafCount]
  ELSE LET m == RemoveLeaves(root, nodes[k])
           lc == leafCount - m.result
       IN IF lc <= budget THEN [root |-> m.root, leafCount |-> lc]
          ELSE ReduceNodes(m.root, lc, nodes, k + 1, budget)

RECURSIVE ReduceLevels(_, _, _)
\* the outer loop of MakePalette from level down to 0
ReduceLevels(q, leafCount, level) ==
  IF level < 0 THEN q
  ELSE IF level \in DOMAIN q.Levels /\ q.Levels[level] # <<>>  \* exists
  THEN LET m == ReduceNodes(q.Root, leafCount, q.Levels[level], 1, q.Config.MaxColors)
           q1 == [q EXCEPT !.Root = m.root]
       IN IF m.leafCount <= q.Config.MaxColors THEN q1
          ELSE ReduceLevels([q1 EXCEPT !.Levels[level] = <<>>], m.leafCount, level - 1)
  ELSE ReduceLevels(q, leafCount, level - 1)

\* one call node.RemoveLeaves() of MakePalette: the node, and whether each of
\* its children is a leaf when the call is made
Merge(root, node) ==
  [node |-> node,
   absorbsLeaves |-> \A i \in 0..7 :
                       HasChild(root, node, i) => IsLeaf(root[Append(node, i)])]

RECURSIVE MergedNodes(_, _, _, _, _)
\* the calls of RemoveLeaves the inner loop of MakePalette makes over nodes[k..]
MergedNodes(root, leafCount, nodes, k, budget) ==
  IF k > Len(nodes) THEN <<>>
  ELSE LET m == RemoveLeaves(root, nodes[k])
           lc == leafCount - m.result
       IN IF lc <= budget THEN <<Merge(root, nodes[k])>>
          ELSE <<Merge(root, nodes[k])>> \o MergedNodes(m.root, lc, nodes, k + 1, budget)

RECURSIVE MergedLevels(_, _, _)
\* the calls of RemoveLeaves the outer loop of MakePalette makes from level down
MergedLevels(q, leafCount, level) ==
  IF level < 0 THEN <<>>
  ELSE IF level \in DOMAIN q.Levels /\ q.Levels[level] # <<>>
  THEN LET m == ReduceNodes(q.Root, leafCount, q.Levels[level], 1, q.Config.MaxColors)
           here == MergedNodes(q.Root, leafCount, q.Levels[level], 1, q.Config.MaxColors)
           q1 == [q EXCEPT !.Root = m.root]
       IN IF m.leafCount <= q.Config.MaxColors THEN here
          ELSE here \o MergedLevels([q1 EXCEPT !.Levels[level] = <<>>], m.leafCount, level - 1)
  ELSE MergedLevels(q, leafCount, level - 1)

\* the calls of RemoveLeaves that MakePalette makes on q, in order
Merged(q) == MergedLevels(q, Len(GetLeaves(q)), q.Config.MaxDepth - 1)

RECURSIVE AssignPaletteNoCap(_, _, _, _, _)
\* AssignPalette without the test paletteIndex >= MaxColors
AssignPaletteNoCap(root, pal, leaves, k, budget) ==
  IF k > Len(leaves) THEN [root |-> root, palette |-> pal]
  ELSE AssignPaletteNoCap([root EXCEPT ![leaves[k]].PaletteIndex = Len(pal)],
                          Append(pal, GetColor(root[leaves[k]])), leaves, k + 1, budget)

\* the second loop of MakePalette over leaves[k..]: the nodes that pass
\* node.IsLeaf() are taken in order until paletteIndex reaches the budget; the
\* j-th of them gets palette index Len(pal) + j - 1 and its colour is appended
AssignPalette(root, pal, leaves, k, budget) ==
  LET rest == SelectSeq(SubSeq(leaves, k, Len(leaves)), LAMBDA p : IsLeaf(root[p]))
      room == IF budget > Len(pal) THEN budget - Len(pal) ELSE 0
      n == IF Len(rest) < room THEN Len(rest) ELSE room
      at(p) == CHOOSE j \in 1..n : rest[j] = p /\ \A i \in (j + 1)..n : rest[i] # p
  IN [root |-> [p \in DOMAIN root |->
                  IF \E j \in 1..n : rest[j] = p
                  THEN [root[p] EXCEPT !.PaletteIndex = Len(pal) + at(p) - 1]
                  ELSE root[p]],
      palette |-> pal \o [j \in 1..n |-> GetColor(root[rest[j]])]]

\* the quantizer and the palette MakePalette leaves behind
MakePalette(q) ==
  LET leafCount == Len(GetLeaves(q))
      q1 == ReduceLevels(q, leafCount, q.Config.MaxDepth - 1)
      m == AssignPalette(q1.Root, <<>>, GetLeaves(q1), 1, q.Config.MaxColors)
  IN [quantizer |-> [q1 EXCEPT !.Root = m.root], palette |-> m.palette]

RECURSIVE FirstChild(_, _, _)
\* index of the first existing child of node at or after i, 8 if none
FirstChild(root, node, i) ==
  IF i > 7 THEN 8
  ELSE IF HasChild(root, node, i) THEN i ELSE FirstChild(root, node, i + 1)

RECURSIVE NodeGetPaletteIndexNoFallback(_, _, _, _)
\* NodeGetPaletteIndex answering -1 where the colour's branch is missing
NodeGetPaletteIndexNoFallback(root, node, color, level) ==
  IF IsLeaf(root[node]) THEN root[node].PaletteIndex
  ELSE LET index == GetColorIndexForLevel(color, level)
       IN IF HasChild(root, node, index)
          THEN NodeGetPaletteIndexNoFallback(root, Append(node, index), color, level + 1)
          ELSE -1

RECURSIVE LastChild(_, _, _)
\* index of the last existing child of node at or before i, -1 if none
LastChild(root, node, i) ==
  IF i < 0 THEN -1
  ELSE IF HasChild(root, node, i) THEN i ELSE LastChild(root, node, i - 1)

RECURSIVE NodeGetPaletteIndexLastChild(_, _, _, _)
\* NodeGetPaletteIndex falling back to the existing child with the highest index
NodeGetPaletteIndexLastChild(root, node, color, level) ==
  IF IsLeaf(root[node]) THEN root[node].PaletteIndex
  ELSE LET index == GetColorIndexForLevel(color, level)
       IN IF HasChild(root, node, index)
          THEN NodeGetPaletteIndexLastChild(root, Append(node, index), color, level + 1)
          ELSE LET f == LastChild(root, node, 7)
               IN IF f >= 0
                  THEN NodeGetPaletteIndexLastChild(root, Append(node, f), color, level + 1)
                  ELSE 0

RECURSIVE NodeGetPaletteIndex(_, _, _, _)
NodeGetPaletteIndex(root, node, color, level) ==
  IF IsLeaf(root[node]) THEN root[node].PaletteIndex
  ELSE LET index == GetColorIndexForLevel(color, level)
       IN IF HasChild(root, node, index)
          THEN NodeGetPaletteIndex(root, Append(node, index), color, level + 1)
          ELSE LET f == FirstChild(root, node, 0)
               IN IF f < 8
                  THEN NodeGetPaletteIndex(root, Append(node, f), color, level + 1)
                  ELSE 0

GetPaletteIndex(q, color) == NodeGetPaletteIndex(q.Root, <<>>, color, 0)

(***************************************************************************)
(* Octree                                                                  *)
(***************************************************************************)
\* const maxDepth = 8 in InsertColor
maxDepth == 8

\* const maxColors = 256 in InsertColor, the literal 256 in Reduce and
\* buildPaletteRecursive
maxColors == 256

EmptyNode == [isLeaf |-> FALSE, colorCount |-> 0, redTotal |-> 0,
              greenTotal |-> 0, blueTotal |-> 0, paletteIndex |-> 0]

NewOctree(colorDepth) ==
  [root |-> <<>> :> EmptyNode, colorDepth |-> colorDepth, leafCount |-> 0,
   reducible |-> [l \in 0..7 |-> NoNode], palette |-> <<>>]

\* color.RGBAModel.Convert(c).(color.RGBA): the 16-bit channels shifted back
RGBAModelConvert(c) ==
  LET w == RGBA16(c)
  IN [R |-> (w.R \div 256) % 256, G |-> (w.G \div 256) % 256,
      B |-> (w.B \div 256) % 256, A |-> (w.A \div 256) % 256]

RECURSIVE BitAnd(_, _)
BitAnd(a, b) ==
  IF a = 0 \/ b = 0 THEN 0
  ELSE (IF a % 2 = 1 /\ b % 2 = 1 THEN 1 ELSE 0) + 2 * BitAnd(a \div 2, b \div 2)

RECURSIVE BitOr(_, _)
BitOr(a, b) ==
  IF a = 0 THEN b ELSE IF b = 0 THEN a
  ELSE (IF a % 2 = 1 \/ b % 2 = 1 THEN 1 ELSE 0) + 2 * BitOr(a \div 2, b \div 2)

\* the run-time panic of a shift by a negative count
Panic == -1

\* x >> n for a signed count n
ShiftRight(x, n) == IF n < 0 THEN Panic ELSE x \div (2 ^ n)

\* the child index InsertColor computes at a level, or Panic
InsertIndex(c, bitMask, level) ==
  LET sr == ShiftRight(BitAnd(c.R, bitMask), maxDepth - 3 - level)
      sg == ShiftRight(BitAnd(c.G, bitMask), maxDepth - 2 - level)
      sb == ShiftRight(BitAnd(c.B, bitMask), maxDepth - 1 - level)
  IN IF sr = Panic \/ sg = Panic \/ sb = Panic THEN Panic
     ELSE BitOr(BitOr(sr, sg), sb)

\* paths of the nodes of the subtree hanging at path top
Subtree(root, top) ==
  {p \in DOMAIN root : Len(p) >= Len(top) /\ SubSeq(p, 1, Len(top)) = top}

\* root without the subtree at top (children[i] = nil)
Detach(root, top) ==
  [p \in (DOMAIN root) \ Subtree(root, top) |-> root[p]]

RECURSIVE HighestReducible(_, _)
\* the scan of Reduce for levelToReduce, 0 when every entry is nil
HighestReducible(reducible, i) ==
  IF i < 0 THEN 0
  ELSE IF reducible[i] # NoNode THEN i ELSE HighestReducible(reducible, i - 1)

RECURSIVE MergeChildren(_, _, _, _)
\* the loop of Reduce over the children of node n from index i on
MergeChildren(o, n, i, acc) ==
  IF i > 7 THEN [o |-> o, acc |-> acc]
  ELSE IF HasChild(o.root, n, i)
  THEN LET child == o.root[Append(n, i)]
           acc1 == [redTotal |-> acc.redTotal + child.redTotal,
                    greenTotal |-> acc.greenTotal + child.greenTotal,
                    blueTotal |-> acc.blueTotal + child.blueTotal,
                    colorCount |-> acc.colorCount + child.colorCount]
           o1 == [o EXCEPT !.leafCount = @ - 1,
                           !.root = Detach(@, Append(n, i))]
       IN MergeChildren(o1, n, i + 1, acc1)
  ELSE MergeChildren(o, n, i + 1, acc)

RECURSIVE Reduce(_)
Reduce(o) ==
  IF o.leafCount > maxColors
  THEN LET levelToReduce == HighestReducible(o.reducible, 7)
           nodeToReduce == o.reducible[levelToReduce]
       IN IF nodeToReduce = NoNode THEN o
          ELSE LET o1 == [o EXCEPT !.reducible[levelToReduce] = NoNode]
                   m == MergeChildren(o1, nodeToReduce, 0,
                          [redTotal |-> 0, greenTotal |-> 0,
                           blueTotal |-> 0, colorCount |-> 0])
                   o2 == [m.o EXCEPT
                            !.root[nodeToReduce] =
                               [@ EXCEPT !.isLeaf = TRUE,
                                         !.redTotal = m.acc.redTotal,
                                         !.greenTotal = m.acc.greenTotal,
                                         !.blueTotal = m.acc.blueTotal,
                                         !.colorCount = m.acc.colorCount],
                            !.leafCount = @ + 1]
               IN Reduce(o2)
  ELSE o

RECURSIVE InsertDescend(_, _, _, _, _)
\* the descent loop of InsertColor from level on; currentNode is a path
InsertDescend(o, c, currentNode, bitMask, level) ==
  IF level < o.colorDepth /\ level < maxDepth
  THEN LET index == InsertIndex(c, bitMask, level)
       IN IF index = Panic THEN [o |-> o, node |-> currentNode, fault |-> TRUE]
          ELSE LET child == Append(currentNode, index)
                   o1 == IF ~HasChild(o.root, currentNode, index)
                         THEN [o EXCEPT
                                 !.root = (child :> EmptyNode) @@ @,
                                 !.reducible = IF level < maxDepth - 1
                                               THEN [@ EXCEPT ![level + 1] = child]
                                               ELSE @,
                                 !.leafCount = IF level = maxDepth - 1
                                               THEN @ + 1 ELSE @]
                         ELSE o
               IN InsertDescend(o1, c, child, bitMask \div 2, level + 1)
  ELSE [o |-> o, node |-> currentNode, fault |-> FALSE]

\* InsertColor marking the node a leaf without counting the colour
InsertColorNoCount(o, c) ==
  LET rgba == RGBAModelConvert(c)
      d == InsertDescend(o, rgba, <<>>, 2 ^ (maxDepth - 1), 0)
  IN IF d.fault THEN [o |-> d.o, fault |-> TRUE]
     ELSE LET o1 == [d.o EXCEPT !.root[d.node] =
                       [@ EXCEPT !.isLeaf = TRUE,
                                 !.redTotal = @ + rgba.R,
                                 !.greenTotal = @ + rgba.G,
                                 !.blueTotal = @ + rgba.B]]
          IN [o |-> IF o1.leafCount > maxColors THEN Reduce(o1) ELSE o1,
              fault |-> FALSE]

\* the octree InsertColor leaves behind, and whether it panicked on the way
InsertColor(o, c) ==
  LET rgba == RGBAModelConvert(c)
      d == InsertDescend(o, rgba, <<>>, 2 ^ (maxDepth - 1), 0)
  IN IF d.fault THEN [o |-> d.o, fault |-> TRUE]
     ELSE LET o1 == [d.o EXCEPT !.root[d.node] =
                       [@ EXCEPT !.isLeaf = TRUE,
                                 !.colorCount = @ + 1,
                                 !.redTotal = @ + rgba.R,
                                 !.greenTotal = @ + rgba.G,
                                 !.blueTotal = @ + rgba.B]]
          IN [o |-> IF o1.leafCount > maxColors THEN Reduce(o1) ELSE o1,
              fault |-> FALSE]

RECURSIVE buildPaletteRecursive(_, _)
RECURSIVE buildPaletteChildren(_, _, _)
\* argument m is [o, fault]; node is a path present in the tree
buildPaletteRecursive(m, node) ==
  IF m.fault THEN m
  ELSE IF m.o.root[node].isLeaf
  THEN IF Len(m.o.palette) >= 256 THEN m
       ELSE LET n == m.o.root[node]
            IN IF n.colorCount = 0 THEN [m EXCEPT !.fault = TRUE]
               ELSE LET averageColor ==
                          [R |-> (n.redTotal \div n.colorCount) % 256,
                           G |-> (n.greenTotal \div n.colorCount) % 256,
                           B |-> (n.blueTotal \div n.colorCount) % 256,
                           A |-> 255]
                    IN [m EXCEPT !.o.root[node].paletteIndex = Len(m.o.palette),
                                 !.o.palette = Append(@, averageColor)]
  ELSE buildPaletteChildren(m, node, 0)

\* for _, child := range node.children, from index i on (nil children return)
buildPaletteChildren(m, node, i) ==
  IF i > 7 THEN m
  ELSE IF HasChild(m.o.root, node, i)
  THEN buildPaletteChildren(buildPaletteRecursive(m, Append(node, i)), node, i + 1)
  ELSE buildPaletteChildren(m, node, i + 1)

BuildPalette(o) ==
  buildPaletteRecursive([o |-> [o EXCEPT !.palette = <<>>], fault |-> FALSE], <<>>)

\* the index GetPaletteIndex computes at a level
LookupIndex(c, level) ==
  (IF BitAnd(c.R, 2 ^ (7 - level)) # 0 THEN 4 ELSE 0)
  + (IF BitAnd(c.G, 2 ^ (7 - level)) # 0 THEN 2 ELSE 0)
  + (IF BitAnd(c.B, 2 ^ (7 - level)) # 0 THEN 1 ELSE 0)

RECURSIVE LookupDescend(_, _, _, _)
\* the node the descent loop of GetPaletteIndex stops at
LookupDescend(o, c, currentNode, level) ==
  IF level < o.colorDepth
  THEN LET index == LookupIndex(c, level)
       IN IF ~HasChild(o.root, currentNode, index) THEN currentNode
          ELSE LookupDescend(o, c, Append(currentNode, index), level + 1)
  ELSE currentNode

OctreeGetPaletteIndex(o, c) ==
  LET rgba == RGBAModelConvert(c)
      currentNode == LookupDescend(o, rgba, <<>>, 0)
  IN IF o.root[currentNode].isLeaf THEN o.root[currentNode].paletteIndex ELSE 0

(***************************************************************************)
(* The two programs.                                                       *)
(***************************************************************************)
NoProbe == [color |-> RGBA(0, 0, 0, 0), index |-> -1]

\* no branch index has been computed
NoDigit == [color |-> RGBA(0, 0, 0, 0), level |-> -1, insert |-> -1, lookup |-> -1]

IdleQuantizer == NewOctreeQuantizer(CustomConfig(8, 256))
IdleOctree == NewOctree(8)

Init ==
  /\ prog \in {"OctreeQuantizer", "Octree"}
  /\ pc = "insert"
  /\ pixels = <<>>
  /\ palette = <<>>
  /\ fault = FALSE
  /\ probe = NoProbe
  /\ mapped = <<>>
  /\ args = <<>>
  /\ digit = NoDigit
  /\ IF prog = "OctreeQuantizer"
     THEN /\ \E d \in Depths, m \in Budgets :
               quantizer = NewOctreeQuantizer(CustomConfig(d, m))
          /\ octree = IdleOctree
     ELSE /\ quantizer = IdleQuantizer
          /\ \E d \in Depths : octree = NewOctree(d)

\* forImages, first loop: one pixel of the image goes into the quantizer
QAddColor ==
  /\ prog = "OctreeQuantizer" /\ pc = "insert" /\ Len(pixels) < MaxInserts
  /\ \E c \in Pixels :
       /\ quantizer' = AddColor(quantizer, <<>>, NewColor(c), 0)
       /\ pixels' = Append(pixels, c)
  /\ UNCHANGED <<args, digit, prog, pc, palette, octree, fault, probe, mapped>>

\* forImages: palette := quantizer.MakePalette()
QMakePalette ==
  /\ prog = "OctreeQuantizer" /\ pc = "insert"
  /\ LET m == MakePalette(quantizer)
     IN /\ quantizer' = m.quantizer
        /\ palette' = m.palette
  /\ pc' = "built"
  /\ UNCHANGED <<args, digit, prog, pixels, octree, fault, probe, mapped>>

\* forImages, second loop: every pixel is looked up and palette[paletteIndex]
\* is read, which panics when the index is out of range
QQuantize ==
  /\ prog = "OctreeQuantizer" /\ pc = "built" /\ probe = NoProbe
  /\ mapped' = [i \in 1..Len(pixels) |->
                  GetPaletteIndex(quantizer, NewColor(pixels[i]))]
  /\ fault' = \E i \in 1..Len(pixels) :
                 ~(mapped'[i] \in 0..(Len(palette) - 1))
  /\ pc' = "mapped"
  /\ UNCHANGED <<args, digit, prog, pixels, quantizer, palette, octree, probe>>

\* quantizer.GetPaletteIndex(color) for a colour that is not in the image
QGetPaletteIndex ==
  /\ prog = "OctreeQuantizer" /\ pc = "built" /\ probe = NoProbe
  /\ \E c \in Probes :
       probe' = [color |-> c, index |-> GetPaletteIndex(quantizer, NewColor(c))]
  /\ UNCHANGED <<args, digit, prog, pc, pixels, quantizer, palette, octree, fault, mapped>>

\* BuildTree: one pixel of the image goes into the octree
OInsertColor ==
  /\ prog = "Octree" /\ pc = "insert" /\ ~fault /\ Len(pixels) < MaxInserts
  /\ \E c \in Pixels :
       LET m == InsertColor(octree, c)
       IN /\ octree' = m.o
          /\ fault' = m.fault
          /\ pixels' = Append(pixels, c)
  /\ UNCHANGED <<args, digit, prog, pc, quantizer, palette, probe, mapped>>

\* main: octree.BuildPalette()
OBuildPalette ==
  /\ prog = "Octree" /\ pc = "insert" /\ ~fault
  /\ LET m == BuildPalette(octree)
     IN /\ octree' = m.o
        /\ fault' = m.fault
  /\ pc' = "built"
  /\ UNCHANGED <<args, digit, prog, pixels, quantizer, palette, probe, mapped>>

\* ConvertToPaletted: every pixel is looked up and stored as uint8(colorIndex)
OConvertToPaletted ==
  /\ prog = "Octree" /\ pc = "built" /\ ~fault /\ probe = NoProbe
  /\ mapped' = [i \in 1..Len(pixels) |->
                  OctreeGetPaletteIndex(octree, pixels[i]) % 256]
  /\ pc' = "mapped"
  /\ UNCHANGED <<args, digit, prog, pixels, quantizer, palette, octree, fault, probe>>

\* octree.GetPaletteIndex(c) for a colour that is not in the image
OGetPaletteIndex ==
  /\ prog = "Octree" /\ pc = "built" /\ ~fault /\ probe = NoProbe
  /\ \E c \in Probes :
       probe' = [color |-> c, index |-> OctreeGetPaletteIndex(octree, c)]
  /\ UNCHANGED <<args, digit, prog, pc, pixels, quantizer, palette, octree, fault, mapped>>

Next ==
  \/ QAddColor
  \/ QMakePalette
  \/ QQuantize
  \/ QGetPaletteIndex
  \/ OInsertColor
  \/ OBuildPalette
  \/ OConvertToPaletted
  \/ OGetPaletteIndex

Spec == Init /\ [][Next]_vars

TypeOK ==
  /\ prog \in {"OctreeQuantizer", "Octree", "Reduce", "main", "index"}
  /\ pc \in {"insert", "reduced", "built", "mapped"}
  /\ Len(pixels) <= MaxInserts
  /\ fault \in BOOLEAN

(***************************************************************************)
(* The constructors called with any parameters: CustomConfig,             *)
(* NewOctreeQuantizer and NewOctree take every int, and the operations of  *)
(* the two programs then run on what they hand back.                       *)
(***************************************************************************)
\* depths a caller may pass: below 1, the ends of the valid range, above 8
ConstructDepths == {-1, 0, 1, 8, 9}

\* colour budgets a caller may pass: negative, zero, and two valid ones
ConstructBudgets == {-1, 0, 2, 256}

InitConstruct ==
  /\ prog \in {"OctreeQuantizer", "Octree"}
  /\ pc = "insert"
  /\ pixels = <<>>
  /\ palette = <<>>
  /\ fault = FALSE
  /\ probe = NoProbe
  /\ mapped = <<>>
  /\ args = <<>>
  /\ digit = NoDigit
  /\ IF prog = "OctreeQuantizer"
     THEN /\ \E d \in ConstructDepths, m \in ConstructBudgets :
               quantizer = NewOctreeQuantizer(CustomConfig(d, m))
          /\ octree = IdleOctree
     ELSE /\ quantizer = IdleQuantizer
          /\ \E d \in ConstructDepths : octree = NewOctree(d)

ConstructSpec == InitConstruct /\ [][Next]_vars

(***************************************************************************)
(* Reduce at work.  InsertColor calls Reduce when the leafCount field is   *)
(* above maxColors, and Reduce is a method any caller may use: here the    *)
(* Octree value starts with its leafCount field at the ceiling or one      *)
(* above it, and the tree is the one InsertColor builds.                   *)
(***************************************************************************)
\* values of the leafCount field: the ceiling, and the first value for which
\* InsertColor calls Reduce
LeafCounts == {maxColors, maxColors + 1}

InitReduce ==
  /\ prog = "Reduce"
  /\ pc = "insert"
  /\ pixels = <<>>
  /\ palette = <<>>
  /\ fault = FALSE
  /\ probe = NoProbe
  /\ mapped = <<>>
  /\ args = <<>>
  /\ digit = NoDigit
  /\ quantizer = IdleQuantizer
  /\ \E d \in Depths, n \in LeafCounts :
        octree = [NewOctree(d) EXCEPT !.leafCount = n]

\* octree.InsertColor(color), with the Reduce it calls
RInsertColor ==
  /\ prog = "Reduce" /\ pc = "insert" /\ ~fault /\ Len(pixels) < MaxInserts
  /\ \E c \in Pixels :
       LET m == InsertColor(octree, c)
       IN /\ octree' = m.o
          /\ fault' = m.fault
          /\ pixels' = Append(pixels, c)
  /\ UNCHANGED <<args, digit, prog, pc, quantizer, palette, probe, mapped>>

\* octree.Reduce()
RReduce ==
  /\ prog = "Reduce" /\ pc = "insert" /\ ~fault
  /\ octree' = Reduce(octree)
  /\ pc' = "reduced"
  /\ UNCHANGED <<args, digit, prog, pixels, quantizer, palette, fault, probe, mapped>>

\* octree.BuildPalette()
RBuildPalette ==
  /\ prog = "Reduce" /\ pc \in {"insert", "reduced"} /\ ~fault
  /\ LET m == BuildPalette(octree)
     IN /\ octree' = m.o
        /\ fault' = m.fault
  /\ pc' = "built"
  /\ UNCHANGED <<args, digit, prog, pixels, quantizer, palette, probe, mapped>>

NextReduce ==
  \/ RInsertColor
  \/ RReduce
  \/ RBuildPalette

ReduceSpec == InitReduce /\ [][NextReduce]_vars

(***************************************************************************)
(* The OctreeQuantizer program from its command line: main reads depth     *)
(* and colour budget from os.Args and hands them to forImages.  The image  *)
(* here is a dark one, its pixels parting from black at the last bit.      *)
(***************************************************************************)
\* a command-line argument: whether os.Stat finds a file of that name, and
\* whether strconv.Atoi reads it as the integer n
File == [isFile |-> TRUE, isInt |-> FALSE, n |-> 0]
Number(k) == [isFile |-> FALSE, isInt |-> TRUE, n |-> k]

\* os.Args[1:]: the invocations the README lists, and out-of-range numbers
Args ==
  {<<>>, <<File>>, <<File, Number(4)>>, <<File, Number(6), Number(50)>>,
   <<Number(4), Number(32)>>, <<Number(4)>>, <<Number(8), Number(2)>>, <<File, Number(8), Number(2)>>,
   <<File, Number(9)>>, <<Number(9)>>, <<Number(4), Number(300)>>}

\* depth and maxColors as main passes them to forImages
main(a) ==
  IF Len(a) > 0
  THEN IF a[1].isFile
       THEN [depth |-> IF Len(a) > 1 /\ a[2].isInt /\ a[2].n >= 1 /\ a[2].n <= 8
                       THEN a[2].n ELSE 8,
             maxColors |-> IF Len(a) > 2 /\ a[3].isInt /\ a[3].n >= 2 /\ a[3].n <= 256
                           THEN a[3].n ELSE 256]
       ELSE LET depth == IF a[1].isInt /\ a[1].n >= 1 /\ a[1].n <= 8
                         THEN a[1].n ELSE 8
                suggestedMaxColors == 2 ^ depth
            IN [depth |-> depth,
                maxColors |-> IF Len(a) > 1
                              THEN IF a[2].isInt /\ a[2].n >= 2 /\ a[2].n <= 256
                                   THEN a[2].n ELSE 256
                              ELSE IF suggestedMaxColors <= 256
                                   THEN suggestedMaxColors ELSE 256]
  ELSE [depth |-> 8, maxColors |-> 256]

\* config := CustomConfig(depth, maxColors); NewOctreeQuantizer(config)
forImages(depth, colors) == NewOctreeQuantizer(CustomConfig(depth, colors))

\* the pixels of the dark image
DarkPixels == {Black, RGBA(0, 0, 1, 255), RGBA(0, 1, 0, 255), RGBA(1, 0, 0, 255)}

InitMain ==
  /\ prog = "main"
  /\ pc = "insert"
  /\ pixels = <<>>
  /\ palette = <<>>
  /\ fault = FALSE
  /\ probe = NoProbe
  /\ mapped = <<>>
  /\ digit = NoDigit
  /\ octree = IdleOctree
  /\ args \in Args
  /\ quantizer = forImages(main(args).depth, main(args).maxColors)

\* forImages, first loop
MAddColor ==
  /\ prog = "main" /\ pc = "insert" /\ Len(pixels) < MaxInserts
  /\ \E c \in DarkPixels :
       /\ quantizer' = AddColor(quantizer, <<>>, NewColor(c), 0)
       /\ pixels' = Append(pixels, c)
  /\ UNCHANGED <<args, digit, prog, pc, palette, octree, fault, probe, mapped>>

\* forImages: palette := quantizer.MakePalette()
MMakePalette ==
  /\ prog = "main" /\ pc = "insert"
  /\ LET m == MakePalette(quantizer)
     IN /\ quantizer' = m.quantizer
        /\ palette' = m.palette
  /\ pc' = "built"
  /\ UNCHANGED <<args, digit, prog, pixels, octree, fault, probe, mapped>>

\* forImages, second loop
MQuantize ==
  /\ prog = "main" /\ pc = "built"
  /\ mapped' = [i \in 1..Len(pixels) |->
                  GetPaletteIndex(quantizer, NewColor(pixels[i]))]
  /\ fault' = \E i \in 1..Len(pixels) :
                 ~(mapped'[i] \in 0..(Len(palette) - 1))
  /\ pc' = "mapped"
  /\ UNCHANGED <<args, digit, prog, pixels, quantizer, palette, octree, probe>>

NextMain ==
  \/ MAddColor
  \/ MMakePalette
  \/ MQuantize

MainSpec == InitMain /\ [][NextMain]_vars

(***************************************************************************)
(* The branch index of a colour at a level, as InsertColor computes it     *)
(* and as Octree.GetPaletteIndex computes it.                              *)
(***************************************************************************)
\* channel values: all bits clear, the lowest bit, the highest bit, all bits
Channels == {0, 1, 128, 255}

IndexColours == {RGBA(r, g, b, 255) : r, g, b \in Channels}

\* bitMask in InsertColor on entry to a level: 1 << (maxDepth - 1), then
\* bitMask >>= 1 once per level
BitMaskAt(level) == (2 ^ (maxDepth - 1)) \div (2 ^ level)

InitIndex ==
  /\ prog = "index"
  /\ pc = "insert"
  /\ pixels = <<>>
  /\ palette = <<>>
  /\ fault = FALSE
  /\ probe = NoProbe
  /\ mapped = <<>>
  /\ args = <<>>
  /\ digit = NoDigit
  /\ quantizer = IdleQuantizer
  /\ octree = IdleOctree

\* both index computations for one colour at one level of the descent
ComputeIndex ==
  /\ prog = "index"
  /\ \E c \in IndexColours, level \in 0..(maxDepth - 1) :
       digit' = [color |-> c, level |-> level,
                 insert |-> InsertIndex(RGBAModelConvert(c), BitMaskAt(level), level),
                 lookup |-> LookupIndex(RGBAModelConvert(c), level)]
  /\ UNCHANGED <<args, prog, pc, pixels, quantizer, palette, octree, fault, probe, mapped>>

IndexSpec == InitIndex /\ [][ComputeIndex]_vars

(***************************************************************************)
(* forGifs: main calls it when the input file's extension is .gif.  It     *)
(* reads sd.gif, adds every pixel of the frame to the quantizer, builds    *)
(* the palette, appends a transparent entry and writes each pixel's index  *)
(* as a byte.  One frame is modelled; drawn over the empty base image, the *)
(* frame is the image that is looked up.                                   *)
(***************************************************************************)
\* an os.Args[1] that names an existing file whose extension is .gif
GifFile == [isFile |-> TRUE, isInt |-> FALSE, n |-> 1]

GifArgs ==
  {<<GifFile>>, <<GifFile, Number(3)>>, <<GifFile, Number(3), Number(255)>>,
   <<GifFile, Number(3), Number(2)>>}

\* uint8(n) of an int that is not negative
Uint8(n) == n % 256

\* the pixels of sd.gif in scan order: 256 opaque colours whose channels
\* differ in their three highest bits, the first one alone under its depth-2
\* node, and one transparent pixel
GifFrame ==
  [i \in 1..257 |->
     IF i = 257 THEN RGBA(0, 0, 0, 0)
     ELSE LET s == IF i = 1 THEN 0 ELSE 126 + i
          IN RGBA(32 * ((s \div 64) % 8), 32 * ((s \div 8) % 8), 32 * (s % 8), 255)]

convertToColorPalette(pal) ==
  [i \in 1..Len(pal) |-> RGBA(Uint8(pal[i].Red), Uint8(pal[i].Green),
                              Uint8(pal[i].Blue), Uint8(pal[i].Alpha))]

InitGif ==
  /\ prog = "forGifs"
  /\ pc = "insert"
  /\ pixels = <<>>
  /\ palette = <<>>
  /\ fault = FALSE
  /\ probe = NoProbe
  /\ mapped = <<>>
  /\ digit = NoDigit
  /\ octree = IdleOctree
  /\ args \in GifArgs
  /\ quantizer = NewOctreeQuantizer(CustomConfig(main(args).depth, main(args).maxColors))

\* forGifs, first loop: the next pixel of the frame
GAddColor ==
  /\ prog = "forGifs" /\ pc = "insert" /\ Len(pixels) < Len(GifFrame)
  /\ LET c == GifFrame[Len(pixels) + 1]
     IN /\ quantizer' = AddColor(quantizer, <<>>, NewColor(c), 0)
        /\ pixels' = Append(pixels, c)
  /\ UNCHANGED <<args, digit, prog, pc, palette, octree, fault, probe, mapped>>

\* palette := quantizer.MakePalette(); colorPalette := convertToColorPalette(palette);
\* colorPalette = append(colorPalette, color.RGBA{0, 0, 0, 0})
GMakePalette ==
  /\ prog = "forGifs" /\ pc = "insert" /\ Len(pixels) = Len(GifFrame)
  /\ LET m == MakePalette(quantizer)
     IN /\ quantizer' = m.quantizer
        /\ palette' = Append(convertToColorPalette(m.palette), RGBA(0, 0, 0, 0))
  /\ pc' = "built"
  /\ UNCHANGED <<args, digit, prog, pixels, octree, fault, probe, mapped>>

\* forGifs, second loop: SetColorIndex(x, y, uint8(...)) for every pixel
GQuantize ==
  /\ prog = "forGifs" /\ pc = "built"
  /\ LET transparentIndex == Len(palette) - 1
     IN mapped' = [i \in 1..Len(pixels) |->
                     IF RGBA16(pixels[i]).A = 0
                     THEN Uint8(transparentIndex)
                     ELSE Uint8(GetPaletteIndex(quantizer, NewColor(pixels[i])))]
  /\ pc' = "mapped"
  /\ UNCHANGED <<args, digit, prog, pixels, quantizer, palette, octree, fault, probe>>

NextGif ==
  \/ GAddColor
  \/ GMakePalette
  \/ GQuantize

GifSpec == InitGif /\ [][NextGif]_vars

(***************************************************************************)
(* Properties.                                                             *)
(***************************************************************************)
IsQ == prog \in {"OctreeQuantizer", "main"}
IsO == prog = "Octree"
IsR == prog = "Reduce"
Built == pc \in {"built", "mapped"} /\ ~(IsO /\ fault)

\* every colour that may be looked up
Lookups == Pixels \cup Probes

\* the pixels of the image, as a set
Inserted == {pixels[i] : i \in 1..Len(pixels)}

C2_IndexInRange ==
  /\ (IsQ /\ Built /\ Len(pixels) >= 1 /\ quantizer.Config.MaxColors >= 1) =>
       \A c \in Lookups :
          GetPaletteIndex(quantizer, NewColor(c)) \in 0..(Len(palette) - 1)
  /\ (IsO /\ Built /\ Len(pixels) >= 1) =>
       \A c \in Lookups :
          OctreeGetPaletteIndex(octree, c) \in 0..(Len(octree.palette) - 1)
  /\ (Built /\ Len(pixels) >= 1 /\ probe # NoProbe) =>
       probe.index \in 0..(Len(IF IsQ THEN palette ELSE octree.palette) - 1)

\* a colour that was never inserted was looked up through the fallback
\* descent and got an index other than the default 0
C2_Witness ==
  /\ IsQ /\ Built /\ probe # NoProbe
  /\ probe.color \notin Inserted
  /\ ~HasChild(quantizer.Root, <<>>, GetColorIndexForLevel(NewColor(probe.color), 0))
  /\ probe.index >= 1

\* the branch indices of a pixel down to depth d, by the quantizer's rule
QPath(c, d) == [l \in 1..d |-> GetColorIndexForLevel(NewColor(c), l - 1)]

\* the branch indices of a pixel down to depth d, by the octree's lookup rule
OPath(c, d) == [l \in 1..d |-> LookupIndex(RGBAModelConvert(c), l - 1)]

Prefix(p, k) == SubSeq(p, 1, k)

Min(S) == CHOOSE x \in S : \A y \in S : x <= y
Max(S) == CHOOSE x \in S : \A y \in S : x >= y
Abs(x) == IF x < 0 THEN -x ELSE x

\* the node of the quantizer that counts as the leaf of an inserted pixel:
\* the shallowest node with pixels on the pixel's path
AbsorbingLeaf(q, c) ==
  LET path == QPath(c, q.Config.MaxDepth)
      ks == {k \in 0..Len(path) :
               Prefix(path, k) \in DOMAIN q.Root /\ IsLeaf(q.Root[Prefix(path, k)])}
  IN Prefix(path, Min(ks))

\* the leaves that were given a palette entry, in palette order
Emitted(q, pal) == SubSeq(GetLeaves(q), 1, Len(pal))

\* C3: after MakePalette with a budget of at least 2, GetPaletteIndex of every
\* added colour is the index of the palette entry computed from the leaf that
\* absorbed the colour.
C3_AddedColourMapsToItsLeaf ==
  (IsQ /\ Built /\ quantizer.Config.MaxColors >= 2) =>
     \A c \in Inserted :
        LET i == GetPaletteIndex(quantizer, NewColor(c))
            leaves == Emitted(quantizer, palette)
        IN /\ i + 1 \in 1..Len(leaves)
           /\ leaves[i + 1] = AbsorbingLeaf(quantizer, c)
           /\ palette[i + 1] = GetColor(quantizer.Root[leaves[i + 1]])

\* number of leaves the inserted pixels make at depth d, in either tree
LeavesAtDepth(d) ==
  IF IsQ THEN Cardinality({QPath(c, d) : c \in Inserted})
  ELSE Cardinality({OPath(c, d) : c \in Inserted})

C5_NothingMergedWithinBudget ==
  /\ (IsQ /\ Built /\ quantizer.Config.MaxDepth = 8
        /\ Cardinality(Inserted) <= quantizer.Config.MaxColors) =>
       /\ Len(palette) = Cardinality(Inserted)
       /\ {palette[k] : k \in 1..Len(palette)} = {NewColor(c) : c \in Inserted}
  /\ (IsO /\ Built /\ octree.colorDepth = 8 /\ Cardinality(Inserted) <= 256) =>
       /\ Len(octree.palette) = Cardinality(Inserted)
       /\ {octree.palette[k] : k \in 1..Len(octree.palette)}
            = {RGBAModelConvert(c) : c \in Inserted}

\* length of the longest common prefix of two paths of the same length
CommonPrefix(p, r) ==
  Max({k \in 0..Len(p) : Prefix(p, k) = Prefix(r, k)})

\* C6: Octree.GetPaletteIndex maps a colour that was never inserted to the
\* palette entry of an inserted leaf that shares the longest trie-path prefix
\* with it.
C6_LookupFollowsLongestPrefix ==
  (IsO /\ Built /\ Len(pixels) >= 1) =>
     \A c \in Lookups \ Inserted :
        LET d == octree.colorDepth
            best == Max({CommonPrefix(OPath(c, d), OPath(x, d)) : x \in Inserted})
        IN \E x \in Inserted :
              /\ CommonPrefix(OPath(c, d), OPath(x, d)) = best
              /\ OctreeGetPaletteIndex(octree, c)
                   = octree.root[OPath(x, d)].paletteIndex

RECURSIVE SumPixelCount(_, _, _)
\* pixel counts of the nodes leaves[k..], added up
SumPixelCount(root, leaves, k) ==
  IF k > Len(leaves) THEN 0
  ELSE root[leaves[k]].PixelCount + SumPixelCount(root, leaves, k + 1)

RECURSIVE SumChannel(_, _)
\* one channel of the pixels in S, added up; ch is 1, 2 or 3
SumChannel(S, ch) ==
  IF S = {} THEN 0
  ELSE LET c == CHOOSE x \in S : TRUE
           v == IF ch = 1 THEN NewColor(c).Red
                ELSE IF ch = 2 THEN NewColor(c).Green ELSE NewColor(c).Blue
       IN v + SumChannel(S \ {c}, ch)

\* C7: budget 2 and pure red, green and blue inserted once each: the palette
\* has at most 2 entries, each of the 3 colours is absorbed into an entry, the
\* entries' pixel counts total 3 and each entry is the per-channel integer
\* average of the colours it absorbed.
C7_ThreePrimariesBudgetTwo ==
  (IsQ /\ Built /\ quantizer.Config.MaxColors = 2 /\ Len(pixels) = 3
     /\ Inserted = {PureRed, PureGreen, PureBlue}) =>
     LET leaves == Emitted(quantizer, palette)
         absorbed(k) == {c \in Inserted : AbsorbingLeaf(quantizer, c) = leaves[k]}
     IN /\ Len(palette) <= 2
        /\ \A c \in Inserted :
              \E k \in 1..Len(leaves) : AbsorbingLeaf(quantizer, c) = leaves[k]
        /\ SumPixelCount(quantizer.Root, leaves, 1) = 3
        /\ \A k \in 1..Len(leaves) :
              /\ absorbed(k) # {}
              /\ palette[k].Red = SumChannel(absorbed(k), 1) \div Cardinality(absorbed(k))
              /\ palette[k].Green = SumChannel(absorbed(k), 2) \div Cardinality(absorbed(k))
              /\ palette[k].Blue = SumChannel(absorbed(k), 3) \div Cardinality(absorbed(k))

\* v is the quotient total / count cut towards zero
Truncated(v, total, count) == v * count <= total /\ total < (v + 1) * count

RECURSIVE OctreeLeafNodes(_, _, _)
\* the leaves of the octree below node, children i..7, in pre-order
OctreeLeafNodes(root, node, i) ==
  IF i > 7 THEN <<>>
  ELSE LET child == Append(node, i)
           here == IF ~HasChild(root, node, i) THEN <<>>
                   ELSE IF root[child].isLeaf THEN <<child>>
                   ELSE OctreeLeafNodes(root, child, 0)
       IN here \o OctreeLeafNodes(root, node, i + 1)

OctreeLeaves(o) ==
  IF o.root[<<>>].isLeaf THEN << <<>> >> ELSE OctreeLeafNodes(o.root, <<>>, 0)

\* C8: every palette entry's channel value is the integer-truncated quotient
\* of its leaf's channel total by its pixel count, never the value rounded to
\* nearest: totals (10,10,10) and totals (11,11,11) over 3 pixels both give
\* (3,3,3).
C8_TruncatedAverage ==
  /\ \A t \in {10, 11} :
        LET v == GetColor([Color |-> [Red |-> t, Green |-> t, Blue |-> t, Alpha |-> 3 * 255],
                           PixelCount |-> 3, PaletteIndex |-> 0])
        IN v.Red = 3 /\ v.Green = 3 /\ v.Blue = 3
  /\ (IsQ /\ Built) =>
       LET leaves == GetLeaves(quantizer)
       IN /\ Len(palette) <= Len(leaves)
          /\ \A k \in 1..Len(palette) :
                LET n == quantizer.Root[leaves[k]]
                IN /\ Truncated(palette[k].Red, n.Color.Red, n.PixelCount)
                   /\ Truncated(palette[k].Green, n.Color.Green, n.PixelCount)
                   /\ Truncated(palette[k].Blue, n.Color.Blue, n.PixelCount)
                   /\ Truncated(palette[k].Alpha, n.Color.Alpha, n.PixelCount)
  /\ (IsO /\ Built) =>
       LET leaves == OctreeLeaves(octree)
       IN /\ Len(octree.palette) <= Len(leaves)
          /\ \A k \in 1..Len(octree.palette) :
                LET n == octree.root[leaves[k]]
                IN /\ Truncated(octree.palette[k].R, n.redTotal, n.colorCount)
                   /\ Truncated(octree.palette[k].G, n.greenTotal, n.colorCount)
                   /\ Truncated(octree.palette[k].B, n.blueTotal, n.colorCount)

\* a leaf with totals (2,2,2) over 3 pixels, two thirds in each channel, got
\* the entry (0,0,0) and not the nearest value (1,1,1)
C8_Witness ==
  /\ IsQ /\ Built
  /\ \E k \in 1..Len(palette) :
        LET n == quantizer.Root[GetLeaves(quantizer)[k]]
        IN /\ n.PixelCount = 3
           /\ n.Color.Red = 2 /\ n.Color.Green = 2 /\ n.Color.Blue = 2
           /\ palette[k].Red = 0 /\ palette[k].Green = 0 /\ palette[k].Blue = 0

\* positions of the image whose pixel ends at path t
SamePath(img, t, d) == {i \in 1..Len(img) : QPath(img[i], d) = t}

\* C9: an insertion adds 1 to the pixel count of the colour's terminal node
\* and the colour to its channel totals, so that inserting a colour twice adds
\* exactly 2 and twice the colour; inserting a colour that was inserted before
\* creates no node and no registry entry.
C9_SameColourTwice ==
  [][(pc = "insert" /\ pixels' # pixels /\ ~fault') =>
       LET c == pixels'[Len(pixels')]
       IN IF IsQ
          THEN LET t == QPath(c, quantizer.Config.MaxDepth)
                   old == IF t \in DOMAIN quantizer.Root
                          THEN quantizer.Root[t] ELSE ZeroNode
                   new == quantizer'.Root[t]
               IN /\ new.PixelCount = old.PixelCount + 1
                  /\ new.PixelCount
                       = Cardinality(SamePath(pixels', t, quantizer.Config.MaxDepth))
                  /\ new.Color.Red = old.Color.Red + NewColor(c).Red
                  /\ new.Color.Green = old.Color.Green + NewColor(c).Green
                  /\ new.Color.Blue = old.Color.Blue + NewColor(c).Blue
                  /\ new.Color.Alpha = old.Color.Alpha + NewColor(c).Alpha
                  /\ c \in Inserted =>
                       /\ DOMAIN quantizer'.Root = DOMAIN quantizer.Root
                       /\ quantizer'.Levels = quantizer.Levels
          ELSE LET t == OPath(c, octree.colorDepth)
                   old == IF t \in DOMAIN octree.root
                          THEN octree.root[t] ELSE EmptyNode
                   new == octree'.root[t]
               IN /\ new.colorCount = old.colorCount + 1
                  /\ new.redTotal = old.redTotal + RGBAModelConvert(c).R
                  /\ new.greenTotal = old.greenTotal + RGBAModelConvert(c).G
                  /\ new.blueTotal = old.blueTotal + RGBAModelConvert(c).B
                  /\ c \in Inserted =>
                       /\ DOMAIN octree'.root = DOMAIN octree.root
                       /\ octree'.reducible = octree.reducible
                       /\ octree'.leafCount = octree.leafCount
     ]_vars

\* the same colour went in twice and its terminal node counts 2 pixels
C9_Witness ==
  /\ IsQ /\ pc = "insert" /\ Len(pixels) = 2 /\ pixels[1] = pixels[2]
  /\ quantizer.Root[QPath(pixels[1], quantizer.Config.MaxDepth)].PixelCount = 2

\* C10: InsertColor completes without a run-time fault for every colour and
\* every colorDepth from 1 to 8.
C10_InsertNeverFaults ==
  (IsO /\ pc = "insert") => ~fault

\* C11: a tree constructed with a depth outside 1..8 or a colour budget of 0
\* or less is rejected: either construction is signalled as failed or no
\* operation ever gets to work on the tree.
C11_InvalidParametersRejected ==
  /\ (IsQ /\ ~(quantizer.Config.MaxDepth \in 1..8 /\ quantizer.Config.MaxColors >= 1))
       => (fault \/ (pixels = <<>> /\ pc = "insert"))
  /\ (IsO /\ ~(octree.colorDepth \in 1..8))
       => (fault \/ (pixels = <<>> /\ pc = "insert"))

C13_LeavesHavePixels ==
  IsO => /\ \A p \in DOMAIN octree.root :
               octree.root[p].isLeaf => octree.root[p].colorCount > 0
         /\ (pc \in {"built", "mapped"}) => ~fault

\* the palette was averaged from at least two leaves, one of them holding
\* two pixels
C13_Witness ==
  /\ IsO /\ pc = "built" /\ ~fault
  /\ Len(octree.palette) >= 2
  /\ \E p \in DOMAIN octree.root : octree.root[p].isLeaf /\ octree.root[p].colorCount >= 2

C16_PaletteHasRequestedSize ==
  (IsQ /\ Built
      /\ LeavesAtDepth(quantizer.Config.MaxDepth) > quantizer.Config.MaxColors) =>
     Len(palette) = quantizer.Config.MaxColors

\* C17: invoked with an existing file path followed by a depth and no colour
\* count, the program runs with that depth and a colour budget of 2^depth
\* (path/to/image.png 4: depth 4, 16 colours).
C17_PathThenDepthGivesPowerOfTwo ==
  (prog = "main" /\ Len(args) = 2 /\ args[1].isFile
      /\ args[2].isInt /\ args[2].n \in 1..8) =>
     quantizer.Config = CustomConfig(args[2].n, 2 ^ args[2].n)

\* bit 7-level of an 8-bit channel value
BitOf(v, level) == (v \div (2 ^ (7 - level))) % 2

\* C18: for every colour and every level from 0 to 7, the branch index that
\* InsertColor computes equals the one that GetPaletteIndex computes, namely
\* 4 * (bit 7-level of red) + 2 * (bit 7-level of green) + (bit 7-level of blue).
C18_InsertAndLookupAgree ==
  (prog = "index" /\ digit # NoDigit) =>
     /\ digit.insert = digit.lookup
     /\ digit.lookup = 4 * BitOf(digit.color.R, digit.level)
                        + 2 * BitOf(digit.color.G, digit.level)
                        + BitOf(digit.color.B, digit.level)

\* C19: after any sequence of InsertColor calls, for every colorDepth from 1
\* to 8, leafCount equals the number of nodes of the tree marked isLeaf.
C19_LeafCountCountsLeaves ==
  (IsO /\ ~fault) =>
     octree.leafCount = Cardinality({p \in DOMAIN octree.root : octree.root[p].isLeaf})

RECURSIVE SumSeq(_)
SumSeq(q) == IF q = <<>> THEN 0 ELSE Head(q) + SumSeq(Tail(q))

C21_RegistryHoldsEveryNode ==
  (IsO /\ ~fault) =>
     \A p \in DOMAIN octree.root :
        (Len(p) >= 1 /\ Len(p) < octree.colorDepth) => octree.reducible[Len(p)] = p

\* C22: a node is never both a leaf and a parent: in every reachable state no
\* node that counts as a leaf (PixelCount > 0 in OctreeQuantizer, isLeaf in
\* Octree) has a child.
C22_LeafHasNoChild ==
  /\ IsQ => \A p \in DOMAIN quantizer.Root :
               IsLeaf(quantizer.Root[p]) =>
                  \A i \in 0..7 : ~HasChild(quantizer.Root, p, i)
  /\ ((IsO \/ IsR) /\ ~fault) =>
        \A p \in DOMAIN octree.root :
           octree.root[p].isLeaf => \A i \in 0..7 : ~HasChild(octree.root, p, i)

\* path p comes before path r in a pre-order walk with children in index
\* order, neither being a prefix of the other
LexLess(p, r) ==
  \E k \in 1..Min({Len(p), Len(r)}) :
     SubSeq(p, 1, k - 1) = SubSeq(r, 1, k - 1) /\ p[k] < r[k]

\* the leaves a walk from the root of the quantizer meets first on each branch
QTopLeaves ==
  {p \in DOMAIN quantizer.Root :
     /\ Len(p) >= 1 /\ IsLeaf(quantizer.Root[p])
     /\ \A k \in 1..(Len(p) - 1) : ~IsLeaf(quantizer.Root[SubSeq(p, 1, k)])}

\* the leaves a walk from the root of the octree meets first on each branch
OTopLeaves ==
  {p \in DOMAIN octree.root :
     /\ octree.root[p].isLeaf
     /\ \A k \in 0..(Len(p) - 1) : ~octree.root[SubSeq(p, 1, k)].isLeaf}

\* number of paths of S that a pre-order walk meets before p
Rank(p, S) == Cardinality({r \in S : LexLess(r, p)})

\* C23: the palette lists the leaves in pre-order with children in index order
\* 0..7; every leaf emitted before the cap has its palette index set to its
\* position, the entry at that position is the leaf's truncated average, and
\* no two emitted leaves share an index.
C23_PaletteInPreOrder ==
  /\ (IsQ /\ Built) =>
       /\ Len(palette) <= Cardinality(QTopLeaves)
       /\ \A p \in QTopLeaves :
             LET k == Rank(p, QTopLeaves)
                 n == quantizer.Root[p]
             IN k < Len(palette) =>
                  /\ n.PaletteIndex = k
                  /\ Truncated(palette[k + 1].Red, n.Color.Red, n.PixelCount)
                  /\ Truncated(palette[k + 1].Green, n.Color.Green, n.PixelCount)
                  /\ Truncated(palette[k + 1].Blue, n.Color.Blue, n.PixelCount)
                  /\ \A r \in QTopLeaves \ {p} :
                        Rank(r, QTopLeaves) < Len(palette) =>
                           quantizer.Root[r].PaletteIndex # n.PaletteIndex
  /\ (IsO /\ Built) =>
       /\ Len(octree.palette) <= Cardinality(OTopLeaves)
       /\ \A p \in OTopLeaves :
             LET k == Rank(p, OTopLeaves)
                 n == octree.root[p]
             IN k < Len(octree.palette) =>
                  /\ n.paletteIndex = k
                  /\ Truncated(octree.palette[k + 1].R, n.redTotal, n.colorCount)
                  /\ Truncated(octree.palette[k + 1].G, n.greenTotal, n.colorCount)
                  /\ Truncated(octree.palette[k + 1].B, n.blueTotal, n.colorCount)
                  /\ \A r \in OTopLeaves \ {p} :
                        Rank(r, OTopLeaves) < Len(octree.palette) =>
                           octree.root[r].paletteIndex # n.paletteIndex

\* three leaves and a budget of two: two leaves were emitted with indices 0
\* and 1 and the cap stopped the walk before the third
C23_Witness ==
  /\ IsQ /\ Built
  /\ Cardinality(QTopLeaves) = 3
  /\ Len(palette) = 2
  /\ \E p \in QTopLeaves : quantizer.Root[p].PaletteIndex = 1

\* indices of the existing children of node
Kids(root, node) == {i \in 0..7 : HasChild(root, node, i)}

\* the child a lookup of color takes at the non-leaf node p: the one at the
\* colour's branch index if it exists, else the existing one of lowest index
Step(root, p, color) ==
  LET index == GetColorIndexForLevel(color, Len(p))
  IN IF index \in Kids(root, p) THEN index ELSE Min(Kids(root, p))

\* p is where such a lookup ends: every node above p is a non-leaf left by
\* that rule, and p is a leaf or has no children
EndsAt(root, p, color) ==
  /\ \A k \in 0..(Len(p) - 1) :
        LET q == SubSeq(p, 1, k)
        IN ~IsLeaf(root[q]) /\ p[k + 1] = Step(root, q, color)
  /\ IsLeaf(root[p]) \/ Kids(root, p) = {}

\* C24: OctreeNode.GetPaletteIndex, at a non-leaf node without a child at the
\* colour's branch index, descends into the existing child of lowest index and
\* repeats until it reaches a leaf, whose palette index it returns; it falls
\* back to 0 only at a non-leaf node with no children at all.
C24_FallbackToLowestChild ==
  (IsQ /\ pc = "built") =>
     /\ \A c \in Lookups :
           \E p \in DOMAIN quantizer.Root :
              /\ EndsAt(quantizer.Root, p, NewColor(c))
              /\ GetPaletteIndex(quantizer, NewColor(c)) =
                    IF IsLeaf(quantizer.Root[p])
                    THEN quantizer.Root[p].PaletteIndex ELSE 0
     /\ probe # NoProbe =>
           \E p \in DOMAIN quantizer.Root :
              /\ EndsAt(quantizer.Root, p, NewColor(probe.color))
              /\ probe.index = IF IsLeaf(quantizer.Root[p])
                               THEN quantizer.Root[p].PaletteIndex ELSE 0

\* the root has at least two children and none at the probe's branch index:
\* the probe got the index of the leaf under the lowest child, which differs
\* from the index of a leaf under another child
C24_Witness ==
  /\ IsQ /\ pc = "built" /\ probe # NoProbe
  /\ LET kids == Kids(quantizer.Root, <<>>)
     IN /\ GetColorIndexForLevel(NewColor(probe.color), 0) \notin kids
        /\ Cardinality(kids) >= 2
        /\ \E p, r \in QTopLeaves :
              /\ p[1] = Min(kids) /\ r[1] # Min(kids)
              /\ quantizer.Root[p].PaletteIndex = probe.index
              /\ quantizer.Root[r].PaletteIndex # probe.index

\* the nodes the quantizer holds in its level lists
Registered(q) ==
  UNION {{q.Levels[l][k] : k \in 1..Len(q.Levels[l])} : l \in DOMAIN q.Levels}

\* C25: the reduction of OctreeQuantizer.MakePalette is deepest-first: no
\* registered node is merged while a registered node of strictly greater depth
\* is not yet merged, and the children a node absorbs are leaves at that moment.
C25_MergedDeepestFirst ==
  (IsQ /\ pc = "insert") =>
     LET t == Merged(quantizer)
     IN \A k \in 1..Len(t) :
           /\ \A r \in Registered(quantizer) :
                 Len(r) > Len(t[k].node) => \E j \in 1..(k - 1) : t[j].node = r
           /\ t[k].absorbsLeaves

\* C26: in forGifs, for every colour budget main lets through, the index of
\* the transparent entry appended to the palette fits in a byte, no colour
\* lookup yields that index, and the palette has at most 256 entries.
C26_TransparentSlotIsSeparate ==
  (prog = "forGifs" /\ pc \in {"built", "mapped"}) =>
     LET transparentIndex == Len(palette) - 1
     IN /\ quantizer.Config.MaxColors \in 2..256
        /\ palette[transparentIndex + 1] = RGBA(0, 0, 0, 0)
        /\ Uint8(transparentIndex) = transparentIndex
        /\ \A i \in 1..Len(pixels) :
              Uint8(GetPaletteIndex(quantizer, NewColor(pixels[i]))) # Uint8(transparentIndex)
        /\ pc = "mapped" =>
              \A i \in 1..Len(pixels) :
                 RGBA16(pixels[i]).A # 0 => mapped[i] # Uint8(transparentIndex)
        /\ Len(palette) <= 256

====
